---- MODULE Spec2Model ----
(***************************************************************************)
(* Model of the toio-mcp connection registry (CubeManager) and of the      *)
(* process life cycle around it.                                           *)
(*                                                                         *)
(* The registry runs on one asyncio event loop: a coroutine runs without   *)
(* interruption from one `await` on the BLE layer to the next, so every    *)
(* action below is the code between two suspension points.  The tool       *)
(* transport may have several calls in flight; `calls` is the bag of the   *)
(* suspended coroutines with their locals.  A call that returns or raises  *)
(* leaves the bag in the same step (the tool wrapper returns without       *)
(* another await); `resp` shows what that step handed to the client.       *)
(* Session identifiers "cube_<n>" are modelled by the number n, handles    *)
(* (ToioCoreCube objects) by their slot in `handles`.  A handle that is    *)
(* neither connected nor referenced any more is garbage: its slot is       *)
(* reused, so MaxHandles bounds the live objects, not the calls made.      *)
(***************************************************************************)
EXTENDS Naturals, Sequences, FiniteSets, Bags

\* ---------------------------------------------------------------- bounds
\* calls in flight at the same time
MaxTasks == 2
\* live ToioCoreCube objects
MaxHandles == 2
\* live notification handlers (the lambdas made by register)
MaxHandlers == 2
\* largest repeat argument of set_indicator_pattern
MaxRepeat == 2

Devices == {"d1", "d2"}
NoDevice == "none"
Handles == 1..MaxHandles
\* cube ids: len(_cubes) + 1 never exceeds the number of live handles
CubeIds == 1..MaxHandles
HandlerIds == 1..MaxHandlers

VARIABLES
    _cubes,        \* dict cube_id -> handle, in insertion order
    _device_map,   \* dict device_id -> cube_id, in insertion order
    handles,       \* the live ToioCoreCube objects
    calls,         \* the suspended tool calls
    resp,          \* what the last step returned to a client, if it returned
    main,          \* the process: serving, stopping, exited
    issued,        \* history: the cube ids that connect_cube has generated
    _notification_handlers,  \* dict cube_id -> handler (tools/position.py)
    installed      \* per ToioCoreCube object: the handlers installed on it

vars == <<_cubes, _device_map, handles, calls, resp, main, issued,
          _notification_handlers, installed>>

\* ------------------------------------------------------- python dict model
DictHas(d, k) == \E i \in 1..Len(d) : d[i].k = k

DictIdx(d, k) == CHOOSE i \in 1..Len(d) : d[i].k = k

DictGet(d, k) == d[DictIdx(d, k)].v

DictSet(d, k, v) ==
    IF DictHas(d, k) THEN [d EXCEPT ![DictIdx(d, k)].v = v]
    ELSE Append(d, [k |-> k, v |-> v])

DictDel(d, k) ==
    LET keep(e) == e.k # k IN SelectSeq(d, keep)

DictKeys(d) == [i \in 1..Len(d) |-> d[i].k]

\* ------------------------------------------------------------- registry
get_connected_cubes == DictKeys(_cubes)

\* mutant: the lookup ignores the key
get_cube_any(cube_id) == IF _cubes # << >> THEN _cubes[1].v ELSE 0

\* 0 stands for None
get_cube(cube_id) == IF DictHas(_cubes, cube_id) THEN DictGet(_cubes, cube_id) ELSE 0

\* ---------------------------------------------------------------- calls
\* a suspended connect_cube / disconnect_cube with its arguments and locals;
\* seen is history: the cube ids that connects to other devices generated
\* while this connect was in flight
ConnectCall(pc, device_id, cube, seen) ==
    [op |-> "connect_cube", pc |-> pc, device_id |-> device_id, cube_id |-> 0,
     cube |-> cube, seen |-> seen]

DisconnectCall(cube_id, cube) ==
    [op |-> "disconnect_cube", pc |-> "close", device_id |-> NoDevice,
     cube_id |-> cube_id, cube |-> cube, seen |-> {}]

\* the call c suspends at its first await
Suspend(cs, c) == cs (+) SetToBag({c})

\* the suspended call c goes on to its next await as c2
Resume(cs, c, c2) == (cs (-) SetToBag({c})) (+) SetToBag({c2})

\* the suspended call c returns or raises
Finish(cs, c) == cs (-) SetToBag({c})

\* a connect to device_id generated cube_id: the connects to other devices
\* that are in flight have seen it
Seen(cs, device_id, cube_id) ==
    LET see(c) == IF c.op = "connect_cube" /\ c.device_id # device_id
                  THEN [c EXCEPT !.seen = @ \cup {cube_id}] ELSE c
    IN  BagOfAll(see, cs)

\* result of a coroutine: a returned value or a raised exception
\* (note tells which branch of the code produced it)
Returned(id, ok, note) == [kind |-> "value", id |-> id, ok |-> ok, note |-> note]

Raised(note) == [kind |-> "raised", id |-> 0, ok |-> FALSE, note |-> note]

NoResponse == [op |-> "none", kind |-> "none", id |-> 0, ok |-> FALSE, note |-> "none"]

\* the call c ends with res
Response(c, res) ==
    [op |-> c.op, kind |-> res.kind, id |-> res.id, ok |-> res.ok, note |-> res.note]

\* the transport takes another call only while it has a free slot
FreeSlot ==
    /\ main.pc = "serving"
    /\ BagCardinality(calls) < MaxTasks

\* ------------------------------------------------ BLE layer (environment)
\* BLEScanner.scan either raises or returns the devices it saw
ScanOutcomes ==
    {[raised |-> TRUE, devs |-> {}]} \cup
    {[raised |-> FALSE, devs |-> s] : s \in SUBSET Devices}

\* a handle is a ToioCoreCube object: constructed ("new"), connected ("open")
\* or disconnected ("closed"); "free" is a slot without an object
FreeHandle == "free"

NewHandle == "new"

\* the slot the next ToioCoreCube object gets
FreeSlots(hs) == {h \in Handles : hs[h] = "free"}

Alloc(hs) == CHOOSE h \in FreeSlots(hs) : \A g \in FreeSlots(hs) : h <= g

\* handles that are not connected and that nothing refers to are collected
Referenced(h, cubes, cs, mn) ==
    \/ \E i \in 1..Len(cubes) : cubes[i].v = h
    \/ \E c \in BagToSet(cs) : c.cube = h
    \/ mn.cube = h

Collect(hs, cubes, cs, mn) ==
    [h \in Handles |->
        IF hs[h] \in {"new", "closed"} /\ ~Referenced(h, cubes, cs, mn)
        THEN FreeHandle ELSE hs[h]]

\* ------------------------------------------------------- connect_cube
\* mutant: the already-connected check is lost
AlreadyConnected_never(dmap, device_id) == FALSE

\* if device_id in self._device_map
AlreadyConnected(dmap, device_id) == DictHas(dmap, device_id)

\* cube_id = f"cube_{len(self._cubes) + 1}"
NewCubeId(cubes) == Len(cubes) + 1

\* mutant: the handler swallows the failure and returns nothing
connect_cube_except_swallow(res) ==
    IF res.kind = "raised" THEN Returned(0, FALSE, res.note) ELSE res

\* `except Exception: raise`: the failure goes on to the caller
connect_cube_except(res) == res

\* connect_cube up to its first await, or to its return when already connected
connect_cube_call(device_id) ==
    /\ FreeSlot
    /\ LET c == ConnectCall("scan", device_id, 0, {}) IN
       IF AlreadyConnected(_device_map, device_id)
       THEN /\ resp' = Response(c, connect_cube_except(
                           Returned(DictGet(_device_map, device_id), TRUE, "already")))
            /\ calls' = calls
       ELSE /\ calls' = Suspend(calls, c)
            /\ resp' = NoResponse
    /\ UNCHANGED <<_cubes, _device_map, handles, main, issued>>

\* BLEScanner.scan returns: pick the target, construct the cube, start cube.connect()
connect_cube_scan(c) ==
    /\ BagIn(c, calls) /\ c.pc = "scan"
    /\ \E r \in ScanOutcomes :
         IF r.raised \/ c.device_id \notin r.devs
         THEN /\ calls' = Finish(calls, c)
              /\ resp' = Response(c, connect_cube_except(
                             Raised(IF r.raised THEN "scan_failed" ELSE "not_found")))
              /\ handles' = handles
         ELSE /\ FreeSlots(handles) # {}
              /\ handles' = [handles EXCEPT ![Alloc(handles)] = NewHandle]
              /\ calls' = Resume(calls, c, [c EXCEPT !.pc = "connect", !.cube = Alloc(handles)])
              /\ resp' = NoResponse
    /\ UNCHANGED <<_cubes, _device_map, main, issued>>

\* mutant: the reverse map gets an id computed after the cube was stored
StoreCube_late_id(cubes, dmap, device_id, cube) ==
    LET cube_id == NewCubeId(cubes)
        cubes1 == DictSet(cubes, cube_id, cube)
    IN  [cubes |-> cubes1,
         dmap |-> DictSet(dmap, device_id, NewCubeId(cubes1)),
         cube_id |-> cube_id]

\* generate a cube id and store the cube in both maps
StoreCube(cubes, dmap, device_id, cube) ==
    LET cube_id == NewCubeId(cubes) IN
    [cubes |-> DictSet(cubes, cube_id, cube),
     dmap |-> DictSet(dmap, device_id, cube_id),
     cube_id |-> cube_id]

\* mutant: the device is looked up again once cube.connect() has returned,
\* and a connect that lost the race gives up its cube
connect_cube_connected_recheck(c) ==
    /\ BagIn(c, calls) /\ c.pc = "connect"
    /\ \E ok \in BOOLEAN :
         IF ok /\ ~AlreadyConnected(_device_map, c.device_id)
         THEN LET r == StoreCube(_cubes, _device_map, c.device_id, c.cube) IN
              /\ _cubes' = r.cubes
              /\ _device_map' = r.dmap
              /\ issued' = issued \cup {r.cube_id}
              /\ calls' = Seen(Finish(calls, c), c.device_id, r.cube_id)
              /\ resp' = Response(c, connect_cube_except(Returned(r.cube_id, TRUE, "created")))
              /\ handles' = Collect([handles EXCEPT ![c.cube] = "open"], _cubes', calls', main)
         ELSE /\ calls' = Finish(calls, c)
              /\ resp' = Response(c, connect_cube_except(
                             IF ok THEN Returned(DictGet(_device_map, c.device_id), TRUE, "already")
                             ELSE Raised("connect_failed")))
              /\ handles' = Collect(handles, _cubes, calls', main)
              /\ UNCHANGED <<_cubes, _device_map, issued>>
    /\ UNCHANGED main

\* cube.connect() returns or raises
connect_cube_connected(c) ==
    /\ BagIn(c, calls) /\ c.pc = "connect"
    /\ \E ok \in BOOLEAN :
         IF ok
         THEN LET r == StoreCube(_cubes, _device_map, c.device_id, c.cube) IN
              /\ _cubes' = r.cubes
              /\ _device_map' = r.dmap
              /\ issued' = issued \cup {r.cube_id}
              /\ calls' = Seen(Finish(calls, c), c.device_id, r.cube_id)
              /\ resp' = Response(c, connect_cube_except(Returned(r.cube_id, TRUE, "created")))
              /\ handles' = Collect([handles EXCEPT ![c.cube] = "open"], _cubes', calls', main)
         ELSE /\ calls' = Finish(calls, c)
              /\ resp' = Response(c, connect_cube_except(Raised("connect_failed")))
              /\ handles' = Collect(handles, _cubes, calls', main)
              /\ UNCHANGED <<_cubes, _device_map, issued>>
    /\ UNCHANGED main

\* ----------------------------------------------------- disconnect_cube
\* mutant: no handler, the exception leaves disconnect_cube
disconnect_cube_except_none(res) == res

\* `except Exception: return False`
disconnect_cube_except(res) ==
    IF res.kind = "raised" THEN Returned(0, FALSE, res.note) ELSE res

\* if cube_id not in self._cubes
UnknownCube(cubes, cube_id) == ~DictHas(cubes, cube_id)

\* mutant: an unknown cube counts as disconnected
UnknownResult_true == Returned(0, TRUE, "unknown")

\* logger.warning(...); return False
UnknownResult == Returned(0, FALSE, "unknown")

\* lines after `await cube.disconnect()`: linear search of the reverse map
\* (first entry in insertion order), then the two deletions; the second one
\* raises KeyError when the cube id is gone
RemoveCube(cubes, dmap, cube_id) ==
    LET hits == {i \in 1..Len(dmap) : dmap[i].v = cube_id}
        first == CHOOSE i \in hits : \A j \in hits : i <= j
        dmap1 == IF hits = {} THEN dmap ELSE DictDel(dmap, dmap[first].k)
    IN  IF DictHas(cubes, cube_id)
        THEN [cubes |-> DictDel(cubes, cube_id), dmap |-> dmap1,
              res |-> Returned(0, TRUE, "closed")]
        ELSE [cubes |-> cubes, dmap |-> dmap1, res |-> Raised("KeyError")]

\* mutant: the deletions run although cube.disconnect() raised
AfterClose_finally(cubes, dmap, cube_id, ok) ==
    IF ok THEN RemoveCube(cubes, dmap, cube_id)
    ELSE [RemoveCube(cubes, dmap, cube_id) EXCEPT !.res = Raised("close_failed")]

\* what disconnect_cube does once cube.disconnect() has returned (ok) or raised
AfterClose(cubes, dmap, cube_id, ok) ==
    IF ok THEN RemoveCube(cubes, dmap, cube_id)
    ELSE [cubes |-> cubes, dmap |-> dmap, res |-> Raised("close_failed")]

\* disconnect_cube up to its await, or to its return for an unknown id
disconnect_cube_call(cube_id) ==
    /\ FreeSlot
    /\ IF UnknownCube(_cubes, cube_id)
       THEN /\ resp' = Response(DisconnectCall(cube_id, 0), disconnect_cube_except(UnknownResult))
            /\ calls' = calls
       ELSE /\ calls' = Suspend(calls, DisconnectCall(cube_id, DictGet(_cubes, cube_id)))
            /\ resp' = NoResponse
    /\ UNCHANGED <<_cubes, _device_map, handles, main, issued>>

\* cube.disconnect() returns or raises
disconnect_cube_closed(c) ==
    /\ BagIn(c, calls) /\ c.pc = "close"
    /\ \E ok \in BOOLEAN :
         LET r == AfterClose(_cubes, _device_map, c.cube_id, ok) IN
         /\ _cubes' = r.cubes
         /\ _device_map' = r.dmap
         /\ calls' = Finish(calls, c)
         /\ resp' = Response(c, disconnect_cube_except(r.res))
         /\ handles' = Collect(IF ok THEN [handles EXCEPT ![c.cube] = "closed"] ELSE handles,
                               _cubes', calls', main)
    /\ UNCHANGED <<main, issued>>

\* ------------------------------------------------------------ process
IdleMain ==
    [pc |-> "serving", cube_ids |-> << >>, cube_id |-> 0, cube |-> 0,
     snapshot |-> << >>, attempted |-> {}, failed |-> {}, exit |-> "none"]

\* the event loop of server.start() is torn down: pending calls are cancelled
Cancelled == EmptyBag

\* Ctrl-C: main() runs asyncio.run(server.stop()), i.e. disconnect_all, which
\* first takes cube_ids = list(self._cubes.keys())
KeyboardInterrupt ==
    /\ main.pc = "serving"
    /\ calls' = Cancelled
    /\ resp' = NoResponse
    /\ main' = [IdleMain EXCEPT !.pc = "all", !.cube_ids = DictKeys(_cubes),
                                 !.snapshot = _cubes]
    /\ handles' = Collect(handles, _cubes, calls', main')
    /\ UNCHANGED <<_cubes, _device_map, issued>>

\* mutant: the loop gives up after a disconnect_cube that returned False
RestAfter_break(cube_ids, res) == IF res.ok THEN Tail(cube_ids) ELSE << >>

\* for cube_id in cube_ids: the result of disconnect_cube is not looked at
RestAfter(cube_ids, res) == Tail(cube_ids)

\* the for loop of disconnect_all: the next disconnect_cube up to its await
disconnect_all_next ==
    /\ main.pc = "all"
    /\ IF main.cube_ids = << >>
       THEN main' = [main EXCEPT !.pc = "exited", !.exit = "stopped"]
       ELSE LET cube_id == Head(main.cube_ids) IN
            IF UnknownCube(_cubes, cube_id)
            THEN main' = [main EXCEPT !.cube_ids =
                             RestAfter(@, disconnect_cube_except(UnknownResult))]
            ELSE main' = [main EXCEPT !.pc = "all_close", !.cube_id = cube_id,
                                      !.cube = DictGet(_cubes, cube_id),
                                      !.attempted = @ \cup {DictGet(_cubes, cube_id)}]
    /\ UNCHANGED <<_cubes, _device_map, handles, calls, resp, issued>>

\* the close awaited by disconnect_all returns or raises; a disconnect_cube
\* that raised would end the loop and stop()
disconnect_all_closed ==
    /\ main.pc = "all_close"
    /\ \E ok \in BOOLEAN :
         LET r == AfterClose(_cubes, _device_map, main.cube_id, ok)
             res == disconnect_cube_except(r.res)
         IN  /\ _cubes' = r.cubes
             /\ _device_map' = r.dmap
             /\ main' = IF res.kind = "raised"
                        THEN [main EXCEPT !.pc = "exited", !.exit = "raised", !.cube = 0]
                        ELSE [main EXCEPT !.pc = "all", !.cube_ids = RestAfter(@, res),
                                          !.cube_id = 0, !.cube = 0,
                                          !.failed = IF ok THEN @ ELSE @ \cup {main.cube}]
             /\ handles' = Collect(IF ok THEN [handles EXCEPT ![main.cube] = "closed"]
                                   ELSE handles, _cubes', calls, main')
    /\ UNCHANGED <<calls, resp, issued>>

\* server.start() returns because the transport ended: main returns 0
TransportEnd ==
    /\ main.pc = "serving"
    /\ calls' = Cancelled
    /\ resp' = NoResponse
    /\ main' = [main EXCEPT !.pc = "exited", !.exit = "ended"]
    /\ handles' = Collect(handles, _cubes, calls', main')
    /\ UNCHANGED <<_cubes, _device_map, issued>>

\* server.start() raises: main logs the error and returns 1
TransportError ==
    /\ main.pc = "serving"
    /\ calls' = Cancelled
    /\ resp' = NoResponse
    /\ main' = [main EXCEPT !.pc = "exited", !.exit = "error"]
    /\ handles' = Collect(handles, _cubes, calls', main')
    /\ UNCHANGED <<_cubes, _device_map, issued>>

\* ------------------------------------------- position notification tools
\* a suspended register/unregister_position_notification with its locals
NotifyCall(op, cube_id, cube, handler) ==
    [op |-> op, pc |-> "device", device_id |-> NoDevice, cube_id |-> cube_id,
     cube |-> cube, seen |-> {}, handler |-> handler]

NotifyOps == {"register_position_notification", "unregister_position_notification"}

\* a handler is a lambda object: it lives while the table, a device or a
\* suspended call refers to it
HandlerLive(x, table, inst, cs) ==
    \/ \E i \in 1..Len(table) : table[i].v = x
    \/ \E h \in Handles : x \in inst[h]
    \/ \E c \in BagToSet(cs) : c.op \in NotifyOps /\ c.handler = x

FreeHandlers == {x \in HandlerIds :
                    ~HandlerLive(x, _notification_handlers, installed, calls)}

\* handler = lambda payload: _position_notification_handler(cube_id, payload)
NewHandler == CHOOSE x \in FreeHandlers : \A y \in FreeHandlers : x <= y

\* the handlers of a collected cube object go with it
Sweep(hs, inst) == [h \in Handles |-> IF hs[h] = FreeHandle THEN {} ELSE inst[h]]

\* a step of the registry changes neither the table nor a live device
NotifyIdle ==
    /\ _notification_handlers' = _notification_handlers
    /\ installed' = Sweep(handles', installed)

\* MCPToolResult(success=False, error=f"Cube with ID {cube_id} not found")
CubeNotFound == Returned(0, FALSE, "cube_not_found")

\* mutant: a missing handler counts as unregistered
NotRegistered_ok == Returned(0, TRUE, "not_registered")

\* MCPToolResult(success=False, error="No notification handler registered ...")
NotRegistered == Returned(0, FALSE, "not_registered")

\* `except Exception as e: return MCPToolResult(success=False, error=str(e))`
tool_except(res) ==
    IF res.kind = "raised" THEN Returned(0, FALSE, res.note) ELSE res

\* mutant: the table is written before the cube is looked up
register_call_store_first(cube_id) ==
    /\ FreeSlot
    /\ FreeHandlers # {}
    /\ _notification_handlers' = DictSet(_notification_handlers, cube_id, NewHandler)
    /\ IF get_cube(cube_id) = 0
       THEN /\ resp' = Response([op |-> "register_position_notification"],
                                 tool_except(CubeNotFound))
            /\ calls' = calls
       ELSE /\ calls' = Suspend(calls, NotifyCall("register_position_notification",
                                       cube_id, get_cube(cube_id), NewHandler))
            /\ resp' = NoResponse
    /\ installed' = installed
    /\ UNCHANGED <<_cubes, _device_map, handles, main, issued>>

\* _register_position_notification up to its await: the handler is stored in
\* the table before it is installed on the device
register_call(cube_id) ==
    /\ FreeSlot
    /\ IF get_cube(cube_id) = 0
       THEN /\ resp' = Response([op |-> "register_position_notification"],
                                 tool_except(CubeNotFound))
            /\ calls' = calls
            /\ _notification_handlers' = _notification_handlers
       ELSE /\ FreeHandlers # {}
            /\ _notification_handlers' = DictSet(_notification_handlers, cube_id, NewHandler)
            /\ calls' = Suspend(calls, NotifyCall("register_position_notification",
                                       cube_id, get_cube(cube_id), NewHandler))
            /\ resp' = NoResponse
    /\ installed' = installed
    /\ UNCHANGED <<_cubes, _device_map, handles, main, issued>>

\* register_notification_handler(handler) returns or raises
register_installed(c) ==
    /\ BagIn(c, calls) /\ c.op = "register_position_notification"
    /\ \E ok \in BOOLEAN :
         /\ calls' = Finish(calls, c)
         /\ resp' = Response(c, tool_except(IF ok THEN Returned(0, TRUE, "registered")
                                            ELSE Raised("install_failed")))
         /\ handles' = Collect(handles, _cubes, calls', main)
         /\ installed' = Sweep(handles', IF ok THEN [installed EXCEPT ![c.cube] = @ \cup {c.handler}]
                                         ELSE installed)
    /\ UNCHANGED <<_cubes, _device_map, main, issued, _notification_handlers>>

\* _unregister_position_notification up to its await, or to its return when
\* the cube or the handler is missing
unregister_call(cube_id) ==
    /\ FreeSlot
    /\ LET op == [op |-> "unregister_position_notification"] IN
       IF get_cube(cube_id) = 0
       THEN /\ resp' = Response(op, tool_except(CubeNotFound))
            /\ calls' = calls
       ELSE IF ~DictHas(_notification_handlers, cube_id)
       THEN /\ resp' = Response(op, tool_except(NotRegistered))
            /\ calls' = calls
       ELSE /\ calls' = Suspend(calls, NotifyCall("unregister_position_notification",
                                       cube_id, get_cube(cube_id),
                                       DictGet(_notification_handlers, cube_id)))
            /\ resp' = NoResponse
    /\ UNCHANGED <<_cubes, _device_map, handles, main, issued,
                   _notification_handlers, installed>>

\* lines after `await ...unregister_notification_handler(handler)`:
\* del _notification_handlers[cube_id] raises KeyError when the entry is gone
RemoveHandler(table, cube_id) ==
    IF DictHas(table, cube_id)
    THEN [table |-> DictDel(table, cube_id), res |-> Returned(0, TRUE, "unregistered")]
    ELSE [table |-> table, res |-> Raised("KeyError")]

\* unregister_notification_handler(handler) returns or raises
unregister_uninstalled(c) ==
    /\ BagIn(c, calls) /\ c.op = "unregister_position_notification"
    /\ \E ok \in BOOLEAN :
         LET r == IF ok THEN RemoveHandler(_notification_handlers, c.cube_id)
                  ELSE [table |-> _notification_handlers, res |-> Raised("uninstall_failed")]
         IN  /\ _notification_handlers' = r.table
             /\ calls' = Finish(calls, c)
             /\ resp' = Response(c, tool_except(r.res))
             /\ handles' = Collect(handles, _cubes, calls', main)
             /\ installed' = Sweep(handles', IF ok THEN [installed EXCEPT ![c.cube] = @ \ {c.handler}]
                                             ELSE installed)
    /\ UNCHANGED <<_cubes, _device_map, main, issued>>

\* ------------------------------------------------------ the other tools
\* tools that await the device call before they answer
AwaitedTools ==
    {"motor_control", "motor_stop", "set_indicator", "get_position",
     "play_sound_effect", "stop_sound", "get_button_state", "get_battery_level",
     "get_motion_detection", "get_posture_angle", "get_magnetic_sensor",
     "turn_off_indicator"}

\* tools that hand the device call to asyncio.create_task and answer at once
DetachedTools == {"play_midi", "set_repeated_indicator"}

DeviceTools == AwaitedTools \cup DetachedTools

\* a coroutine pending on a device call: the tool itself (pc "device") or the
\* task it created (pc "detached")
ToolCall(op, pc, cube) ==
    [op |-> op, pc |-> pc, device_id |-> NoDevice, cube_id |-> 0, cube |-> cube,
     seen |-> {}]

\* mutant: the cube is used without the None check
device_tool_call_unchecked(tool, cube_id) ==
    /\ FreeSlot
    /\ IF get_cube(cube_id) = 0
       THEN /\ resp' = Response([op |-> tool], tool_except(Raised("AttributeError")))
            /\ calls' = calls
       ELSE IF tool \in DetachedTools
       THEN /\ calls' = Suspend(calls, ToolCall(tool, "detached", get_cube(cube_id)))
            /\ resp' = Response([op |-> tool], tool_except(Returned(0, TRUE, "started")))
       ELSE /\ calls' = Suspend(calls, ToolCall(tool, "device", get_cube(cube_id)))
            /\ resp' = NoResponse
    /\ UNCHANGED <<_cubes, _device_map, handles, main, issued,
                   _notification_handlers, installed>>

\* a tool that addresses a cube, up to its await or to its return
device_tool_call(tool, cube_id) ==
    /\ FreeSlot
    /\ IF get_cube(cube_id) = 0
       THEN /\ resp' = Response([op |-> tool], tool_except(CubeNotFound))
            /\ calls' = calls
       ELSE IF tool \in DetachedTools
       THEN /\ calls' = Suspend(calls, ToolCall(tool, "detached", get_cube(cube_id)))
            /\ resp' = Response([op |-> tool], tool_except(Returned(0, TRUE, "started")))
       ELSE /\ calls' = Suspend(calls, ToolCall(tool, "device", get_cube(cube_id)))
            /\ resp' = NoResponse
    /\ UNCHANGED <<_cubes, _device_map, handles, main, issued,
                   _notification_handlers, installed>>

\* the awaited device call returns or raises
device_tool_done(c) ==
    /\ BagIn(c, calls) /\ c.pc = "device" /\ c.op \in AwaitedTools
    /\ \E ok \in BOOLEAN :
         /\ calls' = Finish(calls, c)
         /\ resp' = Response(c, tool_except(IF ok THEN Returned(0, TRUE, "done")
                                            ELSE Raised("device_failed")))
         /\ handles' = Collect(handles, _cubes, calls', main)
    /\ NotifyIdle
    /\ UNCHANGED <<_cubes, _device_map, main, issued>>

\* the device call of a created task returns or raises: nothing awaits the
\* task, its outcome reaches nobody
detached_done(c) ==
    /\ BagIn(c, calls) /\ c.pc = "detached"
    /\ \E ok \in BOOLEAN :
         /\ calls' = Finish(calls, c)
         /\ resp' = NoResponse
         /\ handles' = Collect(handles, _cubes, calls', main)
    /\ NotifyIdle
    /\ UNCHANGED <<_cubes, _device_map, main, issued>>

\* CubeManager.scan_cubes: `except Exception: raise`
scan_cubes_except(res) == res

\* the scan_cubes tool up to its await
scan_cubes_call ==
    /\ FreeSlot
    /\ calls' = Suspend(calls, ToolCall("scan_cubes", "scan_cubes", 0))
    /\ resp' = NoResponse
    /\ UNCHANGED <<_cubes, _device_map, handles, main, issued,
                   _notification_handlers, installed>>

\* BLEScanner.scan returns or raises
scan_cubes_done(c) ==
    /\ BagIn(c, calls) /\ c.pc = "scan_cubes"
    /\ \E r \in ScanOutcomes :
         resp' = Response(c, tool_except(scan_cubes_except(
                     IF r.raised THEN Raised("scan_failed")
                     ELSE Returned(0, TRUE, "devices"))))
    /\ calls' = Finish(calls, c)
    /\ UNCHANGED <<_cubes, _device_map, handles, main, issued,
                   _notification_handlers, installed>>

\* the get_connected_cubes tool: no await
get_connected_cubes_call ==
    /\ FreeSlot
    /\ resp' = Response([op |-> "get_connected_cubes"],
                        tool_except(Returned(Len(get_connected_cubes), TRUE, "cubes")))
    /\ UNCHANGED <<_cubes, _device_map, handles, calls, main, issued,
                   _notification_handlers, installed>>

\* ---------------------------------------------------------- get_position
\* the values of the "type" key
PositionTypes ==
    {"position_id", "standard_id", "position_id_missed", "standard_id_missed"}

\* what `await cube.api.id_information.read()` gives: an exception, None or
\* an object of one of the four id-information classes
ReadOutcomes ==
    {"raised", "None", "PositionId", "StandardId", "PositionIdMissed",
     "StandardIdMissed"}

\* mutant: the isinstance chain stops after PositionIdMissed
PositionObject_short(position) ==
    IF position = "PositionId"
    THEN [type |-> "position_id",
          keys |-> {"type", "center_x", "center_y", "center_angle",
                    "sensor_x", "sensor_y", "sensor_angle"}]
    ELSE IF position = "StandardId"
    THEN [type |-> "standard_id", keys |-> {"type", "value", "angle"}]
    ELSE IF position = "PositionIdMissed"
    THEN [type |-> "position_id_missed", keys |-> {"type"}]
    ELSE [type |-> "none", keys |-> {}]

\* `result = {}` and the isinstance chain: the keys of the dict and the
\* value of its "type" key
PositionObject(position) ==
    IF position = "PositionId"
    THEN [type |-> "position_id",
          keys |-> {"type", "center_x", "center_y", "center_angle",
                    "sensor_x", "sensor_y", "sensor_angle"}]
    ELSE IF position = "StandardId"
    THEN [type |-> "standard_id", keys |-> {"type", "value", "angle"}]
    ELSE IF position = "PositionIdMissed"
    THEN [type |-> "position_id_missed", keys |-> {"type"}]
    ELSE IF position = "StandardIdMissed"
    THEN [type |-> "standard_id_missed", keys |-> {"type"}]
    ELSE [type |-> "none", keys |-> {}]

\* the lines of _get_position after the await: the note of a returned object
\* is its "type", or "{}" for a dict without that key
AfterRead(position) ==
    IF position = "raised" THEN Raised("read_failed")
    ELSE IF position = "None" THEN Returned(0, FALSE, "no_position")
    ELSE LET result == PositionObject(position)
         IN  Returned(0, TRUE, IF "type" \in result.keys THEN result.type ELSE "{}")

\* id_information.read() returns or raises
get_position_read(c) ==
    /\ BagIn(c, calls) /\ c.pc = "device" /\ c.op = "get_position"
    /\ \E position \in ReadOutcomes :
         /\ calls' = Finish(calls, c)
         /\ resp' = Response(c, tool_except(AfterRead(position)))
         /\ handles' = Collect(handles, _cubes, calls', main)
    /\ NotifyIdle
    /\ UNCHANGED <<_cubes, _device_map, main, issued>>

\* ------------------------------------------------- set_indicator_pattern
\* pattern ids a client may send: 1..3 are defined, 0 and 4 are not
PatternIds == 0..4

\* repeat values a client may send
Repeats == 0..MaxRepeat

\* device calls of one pass through the pattern: 7 colours, 50 + 50
\* brightness steps, 6 blink phases
PatternSteps(pattern) ==
    IF pattern = 1 THEN 7 ELSE IF pattern = 2 THEN 100 ELSE 6

\* `range(repeat if repeat > 0 else 1)`: the number of passes
PatternRounds(repeat) == IF repeat > 0 THEN repeat ELSE 1

\* a suspended _set_indicator_pattern: round is the loop variable `_`, step
\* the index in the inner sequence, pc the await it is pending on
PatternCall(pc, cube, pattern, repeat, round, step) ==
    [op |-> "set_indicator_pattern", pc |-> pc, device_id |-> NoDevice,
     cube_id |-> 0, cube |-> cube, seen |-> {}, pattern |-> pattern,
     repeat |-> repeat, round |-> round, step |-> step]

\* _set_indicator_pattern up to its first await, or to its return for an
\* unknown cube or an undefined pattern
set_indicator_pattern_call(cube_id, pattern, repeat) ==
    /\ FreeSlot
    /\ LET op == [op |-> "set_indicator_pattern"] IN
       IF get_cube(cube_id) = 0
       THEN /\ resp' = Response(op, tool_except(CubeNotFound))
            /\ calls' = calls
       ELSE IF pattern \notin {1, 2, 3}
       THEN /\ resp' = Response(op, tool_except(Returned(0, FALSE, "invalid_pattern")))
            /\ calls' = calls
       ELSE /\ calls' = Suspend(calls, PatternCall("indicator", get_cube(cube_id),
                                                  pattern, repeat, 0, 0))
            /\ resp' = NoResponse
    /\ UNCHANGED <<_cubes, _device_map, handles, main, issued,
                   _notification_handlers, installed>>

\* `await cube.api.indicator.set_indicator(...)` returns or raises
set_indicator_pattern_sent(c) ==
    /\ BagIn(c, calls) /\ c.op = "set_indicator_pattern" /\ c.pc = "indicator"
    /\ \E ok \in BOOLEAN :
         IF ok
         THEN /\ calls' = Resume(calls, c, [c EXCEPT !.pc = "sleep"])
              /\ resp' = NoResponse
         ELSE /\ calls' = Finish(calls, c)
              /\ resp' = Response(c, tool_except(Raised("device_failed")))
    /\ UNCHANGED <<_cubes, _device_map, handles, main, issued,
                   _notification_handlers, installed>>

\* `await asyncio.sleep(...)` returns: the next colour, the next pass, or
\* the return after the last pass (`_ = 0` does not restart the range); the
\* id of the answer is the number of passes that ran
set_indicator_pattern_slept(c) ==
    /\ BagIn(c, calls) /\ c.op = "set_indicator_pattern" /\ c.pc = "sleep"
    /\ IF c.step + 1 < PatternSteps(c.pattern)
       THEN /\ calls' = Resume(calls, c, [c EXCEPT !.pc = "indicator", !.step = @ + 1])
            /\ resp' = NoResponse
       ELSE IF c.round + 1 < PatternRounds(c.repeat)
       THEN /\ calls' = Resume(calls, c, [c EXCEPT !.pc = "indicator", !.step = 0,
                                                    !.round = @ + 1])
            /\ resp' = NoResponse
       ELSE /\ calls' = Finish(calls, c)
            /\ resp' = Response(c, tool_except(Returned(c.round + 1, TRUE, "set")))
    /\ UNCHANGED <<_cubes, _device_map, handles, main, issued,
                   _notification_handlers, installed>>

\* what the tool functions of tools/__init__.py hand to the transport for a
\* result of the CubeManager coroutine they await
ErrorEnvelope == [shape |-> "error", key |-> "error"]

\* mutant: no handler around the awaited connect_cube
_connect_cube_unhandled(res) ==
    IF res.kind = "raised" THEN [shape |-> "exception", key |-> res.note]
    ELSE [shape |-> "success", key |-> "cube_id"]

\* return {"cube_id": cube_id} / except Exception: return {"error": str(e)}
_connect_cube(res) ==
    IF res.kind = "raised" THEN ErrorEnvelope
    ELSE [shape |-> "success", key |-> "cube_id"]

\* return {"disconnected": success} / except Exception: return {"error": str(e)}
_disconnect_cube(res) ==
    IF res.kind = "raised" THEN ErrorEnvelope
    ELSE [shape |-> "success", key |-> "disconnected"]

\* the object the transport gets for the response r
ToolResult(r) ==
    IF r.op = "connect_cube" THEN _connect_cube(r)
    ELSE IF r.op = "disconnect_cube" THEN _disconnect_cube(r)
    ELSE IF r.kind = "raised" THEN [shape |-> "exception", key |-> r.note]
    ELSE IF r.ok THEN [shape |-> "success", key |-> r.note]
    ELSE ErrorEnvelope

Init ==
    /\ _cubes = << >>
    /\ _device_map = << >>
    /\ handles = [h \in Handles |-> FreeHandle]
    /\ calls = EmptyBag
    /\ resp = NoResponse
    /\ main = IdleMain
    /\ issued = {}
    /\ _notification_handlers = << >>
    /\ installed = [h \in Handles |-> {}]

\* the registry and the process
Next ==
    \/ (\E d \in Devices : connect_cube_call(d)) /\ NotifyIdle
    \/ (\E c \in BagToSet(calls) : connect_cube_scan(c)) /\ NotifyIdle
    \/ (\E c \in BagToSet(calls) : connect_cube_connected(c)) /\ NotifyIdle
    \/ (\E id \in CubeIds : disconnect_cube_call(id)) /\ NotifyIdle
    \/ (\E c \in BagToSet(calls) : disconnect_cube_closed(c)) /\ NotifyIdle
    \/ KeyboardInterrupt /\ NotifyIdle
    \/ disconnect_all_next /\ NotifyIdle
    \/ disconnect_all_closed /\ NotifyIdle
    \/ TransportEnd /\ NotifyIdle
    \/ TransportError /\ NotifyIdle

\* the registry, the process and the position notification tools
NextNotify ==
    \/ Next
    \/ \E id \in CubeIds : register_call(id)
    \/ \E c \in BagToSet(calls) : register_installed(c)
    \/ \E id \in CubeIds : unregister_call(id)
    \/ \E c \in BagToSet(calls) : unregister_uninstalled(c)

Spec == Init /\ [][Next]_vars

SpecNotify == Init /\ [][NextNotify]_vars

\* the registry, the process and the tools of the server
NextTools ==
    \/ Next
    \/ \E tool \in DeviceTools, id \in CubeIds : device_tool_call(tool, id)
    \/ \E c \in BagToSet(calls) : device_tool_done(c)
    \/ \E c \in BagToSet(calls) : detached_done(c)
    \/ scan_cubes_call
    \/ \E c \in BagToSet(calls) : scan_cubes_done(c)
    \/ get_connected_cubes_call

SpecTools == Init /\ [][NextTools]_vars

\* the registry, the process and the get_position tool
NextPosition ==
    \/ Next
    \/ \E id \in CubeIds : device_tool_call("get_position", id)
    \/ \E c \in BagToSet(calls) : get_position_read(c)

SpecPosition == Init /\ [][NextPosition]_vars

\* one cube is connected: cube_1 on d1
InitPattern ==
    /\ _cubes = <<[k |-> 1, v |-> 1]>>
    /\ _device_map = <<[k |-> "d1", v |-> 1]>>
    /\ handles = [h \in Handles |-> IF h = 1 THEN "open" ELSE FreeHandle]
    /\ calls = EmptyBag
    /\ resp = NoResponse
    /\ main = IdleMain
    /\ issued = {1}
    /\ _notification_handlers = << >>
    /\ installed = [h \in Handles |-> {}]

\* the set_indicator_pattern tool on a registry that does not change
NextPattern ==
    \/ \E id \in CubeIds, pattern \in PatternIds, repeat \in Repeats :
           set_indicator_pattern_call(id, pattern, repeat)
    \/ \E c \in BagToSet(calls) : set_indicator_pattern_sent(c)
    \/ \E c \in BagToSet(calls) : set_indicator_pattern_slept(c)

SpecPattern == InitPattern /\ [][NextPattern]_vars

TypeOK ==
    /\ \A i \in 1..Len(_cubes) : _cubes[i].k \in CubeIds /\ _cubes[i].v \in Handles
    /\ \A i \in 1..Len(_device_map) : _device_map[i].k \in Devices /\ _device_map[i].v \in CubeIds
    /\ \A c \in BagToSet(calls) : c.pc \in {"scan", "connect", "close", "device", "detached", "scan_cubes",
                                          "indicator", "sleep"}
    /\ BagCardinality(calls) <= MaxTasks
    /\ issued \subseteq CubeIds
    /\ \A i \in 1..Len(_notification_handlers) :
          _notification_handlers[i].k \in CubeIds /\ _notification_handlers[i].v \in HandlerIds
    /\ \A h \in Handles : installed[h] \subseteq HandlerIds

\* ------------------------------------------------------------- properties
\* C1: every connect_cube that creates a connection returns a cube id that no
\* earlier connect_cube has generated, and one above all of them.
C1_IdsNeverReused ==
    [][\A c \in BagToSet(calls) :
          (connect_cube_connected(c) /\ resp'.note = "created") =>
              /\ resp'.id \notin issued
              /\ \A i \in issued : i < resp'.id]_vars

\* C2: connect_cube(d) called while d is in the reverse map returns the mapped
\* cube id at once: no scan, no cube object, no change of either map.
C2_AlreadyConnectedReturnsSame ==
    [][\A d \in Devices :
          (connect_cube_call(d) /\ DictHas(_device_map, d)) =>
              /\ resp'.op = "connect_cube"
              /\ resp'.kind = "value"
              /\ resp'.id = DictGet(_device_map, d)
              /\ UNCHANGED <<_cubes, _device_map, handles, calls, issued>>]_vars

\* connect_cube(d) had created cube_1, and the next connect_cube(d) returned
\* cube_1 again
C2_Witness ==
    /\ resp.op = "connect_cube" /\ resp.note = "already"
    /\ resp.kind = "value" /\ resp.id = 1
    /\ issued = {1}
    /\ Len(_device_map) = 1 /\ _device_map[1].v = 1

\* C3: a connect_cube that creates a connection never returns a cube id that a
\* connect_cube to another device, in flight at the same time, has returned.
C3_ConcurrentConnectsDistinct ==
    [][\A c \in BagToSet(calls) :
          (connect_cube_connected(c) /\ resp'.note = "created") =>
              resp'.id \notin c.seen]_vars

\* C4: when disconnect_all has completed, no cube id is registered.
C4_EmptyAfterDisconnectAll ==
    (main.pc = "exited" /\ main.exit = "stopped") => get_connected_cubes = << >>

\* C5: right after disconnect_cube(S) on a registered S has returned, S is
\* not registered any more.
C5_AbsentAfterDisconnect ==
    [][\A c \in BagToSet(calls) :
          disconnect_cube_closed(c) => ~DictHas(_cubes', c.cube_id)]_vars

\* C6: disconnect_cube on a cube id that is not registered returns False,
\* awaits no close and changes no map.
C6_UnknownDisconnect ==
    [][\A cube_id \in CubeIds :
          (disconnect_cube_call(cube_id) /\ ~DictHas(_cubes, cube_id)) =>
              /\ resp'.op = "disconnect_cube"
              /\ resp'.kind = "value"
              /\ resp'.ok = FALSE
              /\ UNCHANGED <<_cubes, _device_map, handles, calls>>]_vars

\* an unknown id was refused while another cube stayed registered
C6_Witness ==
    /\ resp.op = "disconnect_cube" /\ resp.note = "unknown"
    /\ resp.kind = "value" /\ resp.ok = FALSE
    /\ Len(_cubes) > 0

\* C7: disconnect_cube never raises: a failing close, or a cube id that a
\* concurrent disconnect removed meanwhile, gives the return value False.
C7_DisconnectNeverRaises ==
    resp.op = "disconnect_cube" =>
        /\ resp.kind = "value"
        /\ (resp.note \in {"close_failed", "KeyError"} => resp.ok = FALSE)

\* two disconnects of one cube id overlapped: the second found the id gone
C7_Witness ==
    /\ resp.op = "disconnect_cube" /\ resp.note = "KeyError"
    /\ resp.kind = "value" /\ resp.ok = FALSE

\* C8: the teardown started by Ctrl-C never ends by an exception, and when it
\* has ended a close was attempted on every cube registered at its start.
C8_TeardownReachesEveryCube ==
    /\ main.exit # "raised"
    /\ (main.pc = "exited" /\ main.exit = "stopped") =>
           main.attempted = {main.snapshot[i].v : i \in 1..Len(main.snapshot)}

\* the close of the first of two cubes failed, the second was closed all the same
C8_Witness ==
    /\ main.pc = "exited" /\ main.exit = "stopped"
    /\ Len(main.snapshot) = 2
    /\ main.failed = {main.snapshot[1].v}
    /\ main.attempted = {main.snapshot[1].v, main.snapshot[2].v}
    /\ ~DictHas(_cubes, main.snapshot[2].k)

\* C9: a connect_cube that fails raises to its caller and no step of it
\* changes a map; when the scan fails or lacks the device no cube object is
\* made and no connection attempted.
C9_FailedConnectLeavesMaps ==
    [][/\ \A d \in Devices :
             (connect_cube_call(d) /\ ~DictHas(_device_map, d)) =>
                 UNCHANGED <<_cubes, _device_map>>
       /\ \A c \in BagToSet(calls) :
             /\ connect_cube_scan(c) => UNCHANGED <<_cubes, _device_map>>
             /\ (connect_cube_scan(c) /\ BagCardinality(calls') < BagCardinality(calls)) =>
                    /\ resp'.op = "connect_cube"
                    /\ resp'.kind = "raised"
                    /\ resp'.note \in {"scan_failed", "not_found"}
                    /\ handles' = handles
             /\ (connect_cube_connected(c) /\ resp'.note # "created") =>
                    /\ resp'.op = "connect_cube"
                    /\ resp'.kind = "raised"
                    /\ resp'.note = "connect_failed"
                    /\ handles'[c.cube] # "open"
                    /\ UNCHANGED <<_cubes, _device_map>>]_vars

\* a connection attempt failed while a cube was registered: both maps still
\* hold that cube only
C9_Witness ==
    /\ resp.op = "connect_cube" /\ resp.note = "connect_failed"
    /\ resp.kind = "raised"
    /\ Len(_cubes) = 1 /\ Len(_device_map) = 1

\* C10: a connect_cube that creates a connection and returns S leaves the
\* device mapped to S and S mapped to the cube it opened, and touches no
\* entry of either map under another key.
C10_ConnectStoresBothMappings ==
    [][\A c \in BagToSet(calls) :
          (connect_cube_connected(c) /\ resp'.note = "created") =>
              LET S == resp'.id
                  D == c.device_id
              IN  /\ resp'.kind = "value"
                  /\ DictHas(_device_map', D) /\ DictGet(_device_map', D) = S
                  /\ DictHas(_cubes', S) /\ DictGet(_cubes', S) = c.cube
                  /\ \E i \in 1..Len(get_connected_cubes') : get_connected_cubes'[i] = S
                  /\ handles'[c.cube] = "open"
                  /\ \A k \in CubeIds \ {S} :
                        /\ DictHas(_cubes', k) <=> DictHas(_cubes, k)
                        /\ DictHas(_cubes, k) => DictGet(_cubes', k) = DictGet(_cubes, k)
                  /\ \A d \in Devices \ {D} :
                        /\ DictHas(_device_map', d) <=> DictHas(_device_map, d)
                        /\ DictHas(_device_map, d) =>
                              DictGet(_device_map', d) = DictGet(_device_map, d)]_vars

\* a second cube was connected: both mappings of the new one are there and
\* the first cube kept its entries
C10_Witness ==
    /\ resp.op = "connect_cube" /\ resp.note = "created" /\ resp.id = 2
    /\ Len(_cubes) = 2 /\ Len(_device_map) = 2
    /\ _cubes[1].k = 1 /\ _device_map[1].v = 1
    /\ _device_map[2].v = 2
    /\ get_cube(2) # 0 /\ handles[get_cube(2)] = "open"

\* C11: connect_cube looks the device up only before its first await: a call
\* whose cube.connect() returns after a racing call to the same device has
\* stored its cube still opens and stores a connection of its own, so the
\* device has two.
C11_RacingConnectsBothOpen ==
    [][\A c \in BagToSet(calls) :
          (connect_cube_connected(c) /\ DictHas(_device_map, c.device_id)
              /\ resp'.note # "connect_failed") =>
              /\ resp'.note = "created"
              /\ handles'[c.cube] = "open"
              /\ \A i \in 1..Len(_cubes) : _cubes[i].v # c.cube
              /\ DictGet(_cubes', resp'.id) = c.cube]_vars

\* two connect_cube calls to one device raced: the device map has the one
\* device under cube_2, and cube_1 and cube_2 both hold an open connection
C11_Witness ==
    /\ resp.op = "connect_cube" /\ resp.note = "created" /\ resp.id = 2
    /\ issued = {1, 2}
    /\ Len(_device_map) = 1 /\ _device_map[1].v = 2
    /\ Len(_cubes) = 2 /\ _cubes[1].k = 1 /\ _cubes[2].k = 2
    /\ _cubes[1].v # _cubes[2].v
    /\ handles[_cubes[1].v] = "open" /\ handles[_cubes[2].v] = "open"

\* C12: unregister_position_notification for a registered cube that has no
\* handler in the table returns the not-registered error without a device
\* call and changes neither the table nor a device; an unregister that
\* succeeded has removed the entry, so the next one is such a call.
C12_UnregisterWithoutHandler ==
    [][/\ \A c \in BagToSet(calls) :
             (unregister_uninstalled(c) /\ resp'.note = "unregistered") =>
                 ~DictHas(_notification_handlers', c.cube_id)
       /\ \A cube_id \in CubeIds :
          (unregister_call(cube_id) /\ get_cube(cube_id) # 0
              /\ ~DictHas(_notification_handlers, cube_id)) =>
              /\ resp'.op = "unregister_position_notification"
              /\ resp'.kind = "value" /\ resp'.ok = FALSE
              /\ resp'.note = "not_registered"
              /\ UNCHANGED <<_notification_handlers, installed, handles, calls,
                             _cubes, _device_map>>]_vars

\* the unregister after a completed register and unregister: the cube is
\* connected, the table is empty and nothing is installed any more
C12_Witness ==
    /\ resp.op = "unregister_position_notification" /\ resp.note = "not_registered"
    /\ resp.ok = FALSE
    /\ Len(_cubes) = 1 /\ handles[_cubes[1].v] = "open"
    /\ _notification_handlers = << >>
    /\ \A h \in Handles : installed[h] = {}

\* C13: register_position_notification for a cube id that is not registered
\* returns the not-found error, stores no handler and installs none.
C13_RegisterUnknownCube ==
    [][\A cube_id \in CubeIds :
          (register_call(cube_id) /\ get_cube(cube_id) = 0) =>
              /\ resp'.op = "register_position_notification"
              /\ resp'.kind = "value" /\ resp'.ok = FALSE
              /\ resp'.note = "cube_not_found"
              /\ UNCHANGED <<_notification_handlers, installed, handles, calls,
                             _cubes, _device_map>>]_vars

\* a register for an unknown id was refused while another cube was connected
C13_Witness ==
    /\ resp.op = "register_position_notification" /\ resp.note = "cube_not_found"
    /\ resp.ok = FALSE
    /\ Len(_cubes) = 1 /\ _notification_handlers = << >>

\* C14: at most one position handler per cube, in the table and on the
\* device of every registered cube.
C14_AtMostOneCallback ==
    /\ \A i, j \in 1..Len(_notification_handlers) :
          _notification_handlers[i].k = _notification_handlers[j].k => i = j
    /\ \A cube_id \in CubeIds :
          get_cube(cube_id) # 0 => Cardinality(installed[get_cube(cube_id)]) <= 1

\* C15: after an unregister_position_notification that succeeded, no handler
\* is installed on the device and the table has no entry for the cube.
C15_UnregisterLeavesNothing ==
    [][\A c \in BagToSet(calls) :
          (unregister_uninstalled(c) /\ resp'.note = "unregistered") =>
              /\ ~DictHas(_notification_handlers', c.cube_id)
              /\ installed'[c.cube] = {}]_vars

\* C16: a tool that addresses a cube, called with a cube id that is not
\* registered, returns the error "Cube with ID <id> not found", makes no
\* device call and changes nothing.
C16_UnknownCubeTool ==
    [][\A tool \in DeviceTools, cube_id \in CubeIds :
          (device_tool_call(tool, cube_id) /\ ~DictHas(_cubes, cube_id)) =>
              /\ resp'.op = tool
              /\ resp'.kind = "value" /\ resp'.ok = FALSE
              /\ resp'.note = "cube_not_found"
              /\ UNCHANGED <<_cubes, _device_map, handles, calls, issued,
                             _notification_handlers, installed>>]_vars

\* motor_control was refused for an unknown id while a cube was connected
C16_Witness ==
    /\ resp.op = "motor_control" /\ resp.note = "cube_not_found"
    /\ resp.ok = FALSE
    /\ Len(_cubes) = 1 /\ handles[_cubes[1].v] = "open"
    /\ calls = EmptyBag

\* C17: whatever a tool call ends with, the transport gets a success object
\* or an error envelope, never an exception.
C17_ToolsAlwaysRespond ==
    resp.op # "none" => ToolResult(resp).shape \in {"success", "error"}

\* connect_cube raised in the CubeManager and the tool answered with the
\* error envelope
C17_Witness ==
    /\ resp.op = "connect_cube" /\ resp.kind = "raised"
    /\ ToolResult(resp) = ErrorEnvelope

\* C18: a device tool answers with its success object only in the step in
\* which its device call has returned.
C18_SuccessOnlyAfterDeviceCall ==
    [][(resp'.op \in DeviceTools /\ resp'.ok) =>
          \E c \in BagToSet(calls) :
              /\ c.op = resp'.op /\ c.pc = "device"
              /\ calls' = Finish(calls, c)]_vars

\* C19: however the server stops, disconnect_all has run to completion
\* before the process exits and no connection is open at exit.
C19_TeardownOnEveryExit ==
    main.pc = "exited" =>
        /\ main.exit = "stopped"
        /\ \A h \in Handles : handles[h] # "open"

\* C20: get_cube and get_connected_cubes change no map; get_cube gives the
\* cube stored under the id or None, get_connected_cubes the registered ids.
C20_LookupsArePure ==
    [][/\ \A cube_id \in CubeIds :
             /\ (\E i \in 1..Len(_cubes) : _cubes[i].k = cube_id) =>
                    \E i \in 1..Len(_cubes) :
                        _cubes[i].k = cube_id /\ _cubes[i].v = get_cube(cube_id)
             /\ (\A i \in 1..Len(_cubes) : _cubes[i].k # cube_id) =>
                    get_cube(cube_id) = 0
       /\ Len(get_connected_cubes) = Len(_cubes)
       /\ \A i \in 1..Len(_cubes) : get_connected_cubes[i] = _cubes[i].k
       /\ get_connected_cubes_call =>
              /\ resp'.op = "get_connected_cubes" /\ resp'.ok
              /\ resp'.id = Len(_cubes)
              /\ UNCHANGED <<_cubes, _device_map, handles, calls>>
       /\ \A tool \in DeviceTools, cube_id \in CubeIds :
              device_tool_call(tool, cube_id) =>
                  /\ UNCHANGED <<_cubes, _device_map, handles>>
                  /\ \A c \in BagToSet(calls') :
                         (c.op = tool /\ c \notin BagToSet(calls)) =>
                             c.cube = get_cube(cube_id)]_vars

\* get_connected_cubes answered with two ids, each leading to its own cube
C20_Witness ==
    /\ resp.op = "get_connected_cubes" /\ resp.id = 2
    /\ Len(_cubes) = 2
    /\ get_cube(1) # 0 /\ get_cube(2) # 0 /\ get_cube(1) # get_cube(2)

\* C21: after a disconnect_cube(S) that returned True, no device is mapped
\* to S any more.
C21_NoDeviceMappedAfterDisconnect ==
    [][\A c \in BagToSet(calls) :
          (disconnect_cube_closed(c) /\ resp'.ok) =>
              \A i \in 1..Len(_device_map') : _device_map'[i].v # c.cube_id]_vars

\* C22: the two maps are consistent in every reachable state: every value
\* of _device_map is a key of _cubes, and every key of _cubes is the value
\* of exactly one _device_map entry.
C22_MapsAreBijection ==
    /\ \A i \in 1..Len(_device_map) : DictHas(_cubes, _device_map[i].v)
    /\ \A j \in 1..Len(_cubes) :
           Cardinality({i \in 1..Len(_device_map) :
                           _device_map[i].v = _cubes[j].k}) = 1

\* C23: while a cube id stays in _cubes, get_cube keeps returning the cube
\* that was stored under it: no step replaces the cube of a registered id.
C23_HandleStaysTheSame ==
    [][\A cube_id \in CubeIds :
          (get_cube(cube_id) # 0 /\ DictHas(_cubes', cube_id)) =>
              DictGet(_cubes', cube_id) = get_cube(cube_id)]_vars

\* C24: every connection that was opened and not yet closed is stored in
\* _cubes under some cube id.
C24_OpenConnectionsAreStored ==
    \A h \in Handles :
        handles[h] = "open" => \E j \in 1..Len(_cubes) : _cubes[j].v = h

\* C25: a disconnect_cube(S) whose cube.disconnect() raises returns False
\* and changes neither map, leaves the cube open, and a disconnect_cube on
\* a registered S awaits the close of the cube stored under S.
C25_FailedCloseLeavesMaps ==
    [][/\ \A c \in BagToSet(calls) :
             (disconnect_cube_closed(c) /\ resp'.note = "close_failed") =>
                 /\ resp'.kind = "value" /\ resp'.ok = FALSE
                 /\ UNCHANGED <<_cubes, _device_map>>
                 /\ handles[c.cube] = "open" => handles'[c.cube] = "open"
       /\ \A cube_id \in CubeIds :
             (disconnect_cube_call(cube_id) /\ DictHas(_cubes, cube_id)) =>
                 /\ CopiesIn(DisconnectCall(cube_id, get_cube(cube_id)), calls')
                      = CopiesIn(DisconnectCall(cube_id, get_cube(cube_id)), calls) + 1
                 /\ UNCHANGED <<_cubes, _device_map, handles>>]_vars

\* a disconnect_cube just failed on its close: the cube is still listed,
\* still open and its device still mapped to it
C25_Witness ==
    /\ resp.op = "disconnect_cube" /\ resp.note = "close_failed"
    /\ calls = EmptyBag
    /\ \E j \in 1..Len(_cubes) :
           /\ handles[_cubes[j].v] = "open"
           /\ \E i \in 1..Len(_device_map) : _device_map[i].v = _cubes[j].k

\* C26: cube.disconnect() is never awaited by two disconnect_cube calls on
\* the same cube at once.
C26_ClosedAtMostOnce ==
    \A c1, c2 \in BagToSet(calls) :
        (/\ c1.op = "disconnect_cube" /\ c1.pc = "close"
         /\ c2.op = "disconnect_cube" /\ c2.pc = "close"
         /\ c1.cube = c2.cube) =>
            (c1 = c2 /\ CopiesIn(c1, calls) = 1)

\* C27: _notification_handlers only has entries for cube ids that are
\* registered in _cubes.
C27_HandlersOnlyForRegistered ==
    \A i \in 1..Len(_notification_handlers) :
        DictHas(_cubes, _notification_handlers[i].k)

\* C28: register and unregister answer a device error with a failure result;
\* after a failed install the table has no entry for the cube id, after a
\* failed uninstall the table is as it was.
C28_TableFollowsDevice ==
    [][\A c \in BagToSet(calls) :
          /\ (register_installed(c) /\ resp'.note = "install_failed") =>
                 /\ resp'.kind = "value" /\ resp'.ok = FALSE
                 /\ ~DictHas(_notification_handlers', c.cube_id)
          /\ (unregister_uninstalled(c) /\ resp'.note = "uninstall_failed") =>
                 /\ resp'.kind = "value" /\ resp'.ok = FALSE
                 /\ UNCHANGED _notification_handlers]_vars

\* C29: what get_position answers for a registered cube is a failure (the
\* error envelope) or an object whose "type" is one of the four position
\* types; it is never an object without "type" and without "error".
C29_PositionHasTypeOrError ==
    [][\A c \in BagToSet(calls) :
          get_position_read(c) =>
              /\ resp'.op = "get_position" /\ resp'.kind = "value"
              /\ \/ resp'.ok = FALSE /\ ToolResult(resp') = ErrorEnvelope
                 \/ resp'.ok /\ resp'.note \in PositionTypes]_vars

\* get_position answered with the type of the last branch of the chain
C29_Witness ==
    /\ resp.op = "get_position" /\ resp.ok
    /\ resp.note = "standard_id_missed"
    /\ Len(_cubes) >= 1

\* C30: set_indicator_pattern with a defined pattern and repeat > 0 answers
\* success after exactly repeat passes; with repeat = 0 it never answers
\* success; with an undefined pattern it answers a failure at once, without
\* a device call.
C30_PatternRepeats ==
    [][/\ \A c \in BagToSet(calls) :
             (set_indicator_pattern_slept(c) /\ resp'.ok) =>
                 /\ c.repeat > 0
                 /\ resp'.id = c.repeat
       /\ \A id \in CubeIds, pattern \in PatternIds, repeat \in Repeats :
             (/\ set_indicator_pattern_call(id, pattern, repeat)
              /\ get_cube(id) # 0 /\ pattern \notin {1, 2, 3}) =>
                 /\ resp'.op = "set_indicator_pattern"
                 /\ resp'.kind = "value" /\ resp'.ok = FALSE
                 /\ calls' = calls]_vars
====
